---- MODULE Spec2Model ----
(***************************************************************************)
(* ReplicaSet controller of Kubernetes/MakeMySelf/Replica/main_v.py:       *)
(* Pod lifecycle, ReplicaSet.reconcile, ControllerManager.run/stop and     *)
(* ChaosMonkey, as an asyncio program: every step between two suspension   *)
(* points (await asyncio.sleep, await asyncio.gather) is one atomic action.*)
(***************************************************************************)
EXTENDS Integers, Sequences, FiniteSets, TLC

\* ------------------------------------------------------------------ bounds
MaxRS == 2
MaxPods == 4
MaxGeneration == 2
MaxReconciles == 3
MaxReplicas == 2
MaxStartFailures == 1
MaxChaosKills == 1

\* ------------------------------------------------------------------ values
None == "None"
Names == {"web", "api"}
RSIds == 1..MaxRS
Callers == {"ctl", "api"}

\* PodPhase members that get_matching_pods and terminate() treat as finished
TerminalPhases == {"SUCCEEDED", "FAILED", "TERMINATING"}

\* Exception classes caught by "except Exception"
Exceptions == {"TypeError", "ValueError"}

\* Labels (Dict[str, str]) are sets of <<key, value>> pairs with unique keys.
SelWeb == {<<"app", "web">>}
SelApi == {<<"app", "api">>}
SelEmpty == {}
Selectors == {SelWeb, SelApi, SelEmpty}

\* Pod templates: "labels" and whether PodSpec(**template["spec"]) accepts
\* the "spec" entry ("bad" is a dict with a key PodSpec does not have).
TplPlain == [labels |-> {}, spec |-> "ok"]
TplTier == [labels |-> {<<"app", "api">>, <<"tier", "fe">>}, spec |-> "ok"]
TplBad == [labels |-> {}, spec |-> "bad"]
Templates == {TplPlain, TplTier, TplBad}

ReplicaCounts == (-1)..MaxReplicas

ReplicaSetSpec(replicas, selector, template) ==
    [replicas |-> replicas, selector |-> selector, template |-> template]

\* ------------------------------------------------------------------ state
VARIABLES
    replica_sets,   \* ControllerManager.replica_sets: name -> ReplicaSet (0: absent)
    rs,             \* the ReplicaSet objects, in order of construction
    pod,            \* the Pod objects, in order of construction
    call,           \* call[r][c]: the reconcile() call on r made by caller c
    runpc,          \* position of the ControllerManager.run() task
    running,        \* ControllerManager._running
    chaos,          \* ChaosMonkey: _enabled, the run() task, its target, pods killed
    raised,         \* exception the latest public call raised to its caller
    stopped         \* history: ControllerManager.stop() has been called

vars == <<replica_sets, rs, pod, call, runpc, running, chaos, raised, stopped>>

\* ------------------------------------------------------------------ helpers
Range(s) == {s[i] : i \in 1..Len(s)}

Min(a, b) == IF a < b THEN a ELSE b

\* dict.get(key): None when the key is missing
Get(labels, key) ==
    IF \E kv \in labels : kv[1] = key
    THEN (CHOOSE kv \in labels : kv[1] = key)[2]
    ELSE None

\* dict.update(other) keeping the value of a key already present
Update_keep(labels, other) ==
    labels \cup {o \in other : ~ \E kv \in labels : kv[1] = o[1]}

\* dict.update(other): keys of other override
Update(labels, other) ==
    {kv \in labels : ~ \E o \in other : o[1] = kv[1]} \cup other

\* Pod.matches_labels comparing the keys only
matches_labels_keys(labels, selector) ==
    \A kv \in selector : \E l \in labels : l[1] = kv[1]

\* Pod.matches_labels with any() in place of all()
matches_labels_any(labels, selector) ==
    \E kv \in selector : Get(labels, kv[1]) = kv[2]

\* Pod.matches_labels
matches_labels(labels, selector) ==
    \A kv \in selector : Get(labels, kv[1]) = kv[2]

\* Pod.is_ready without the phase test
is_ready_any_phase(p) == pod[p].statuses \in {"Empty", "Running"}

\* Pod.is_ready
is_ready(p) == pod[p].phase = "RUNNING" /\ pod[p].statuses \in {"Empty", "Running"}

HasSpec(r) == rs[r].spec # <<>>
SpecOf(r) == rs[r].spec[1]

\* ReplicaSet.get_owned_pods
get_owned_pods(r) == SelectSeq(rs[r].pods, LAMBDA p : pod[p].owner = r)

\* get_matching_pods without the label test
get_matching_pods_unlabelled(r) ==
    IF ~HasSpec(r) THEN <<>>
    ELSE SelectSeq(rs[r].pods, LAMBDA p : pod[p].phase \notin TerminalPhases)

\* get_matching_pods reading one pod table shared by all groups
get_matching_pods_shared(r) ==
    IF ~HasSpec(r) THEN <<>>
    ELSE SelectSeq([p \in 1..Len(pod) |-> p],
                   LAMBDA p : /\ matches_labels(pod[p].labels, SpecOf(r).selector)
                              /\ pod[p].phase \notin TerminalPhases)

\* ReplicaSet.get_matching_pods
get_matching_pods(r) ==
    IF ~HasSpec(r) THEN <<>>
    ELSE SelectSeq(rs[r].pods,
                   LAMBDA p : /\ matches_labels(pod[p].labels, SpecOf(r).selector)
                              /\ pod[p].phase \notin TerminalPhases)

\* get_status counting the ready pods over all of self._pods
get_status_all_ready(r) ==
    LET matching_pods == get_matching_pods(r)
        ready_pods == SelectSeq(rs[r].pods, is_ready)
    IN [replicas |-> Len(matching_pods),
        fullyLabeledReplicas |-> Len(matching_pods),
        readyReplicas |-> Len(ready_pods),
        availableReplicas |-> Len(ready_pods),
        observedGeneration |-> rs[r].observed_generation,
        metrics |-> rs[r].metrics]

\* ReplicaSet.get_status: no suspension point, one read of the state
get_status(r) ==
    LET matching_pods == get_matching_pods(r)
        ready_pods == SelectSeq(matching_pods, is_ready)
    IN [replicas |-> Len(matching_pods),
        fullyLabeledReplicas |-> Len(matching_pods),
        readyReplicas |-> Len(ready_pods),
        availableReplicas |-> Len(ready_pods),
        observedGeneration |-> rs[r].observed_generation,
        metrics |-> rs[r].metrics]

\* ReplicaSet.__init__
NewReplicaSet(name) ==
    [name |-> name, spec |-> <<>>, pods |-> <<>>,
     generation |-> 0, observed_generation |-> 0,
     metrics |-> [pods_created |-> 0, pods_deleted |-> 0, reconcile_count |-> 0]]

\* update_spec without "self._generation += 1"
update_spec_same_generation(rsrec, spec) ==
    [rsrec EXCEPT !.spec = <<spec>>]

\* update_spec that also empties self._pods
update_spec_reset_pods(rsrec, spec) ==
    [rsrec EXCEPT !.spec = <<spec>>, !.generation = @ + 1, !.pods = <<>>]

\* ReplicaSet.update_spec
update_spec(rsrec, spec) ==
    [rsrec EXCEPT !.spec = <<spec>>, !.generation = @ + 1]

\* _create_pod raises TypeError in PodSpec(**template["spec"])
CreatePodRaises(spec) == spec.template.spec = "bad"

\* _create_pod without labels.update(self.spec.selector)
_create_pod_template_labels(r, spec, k) ==
    [phase |-> "PENDING",
     labels |-> spec.template.labels,
     creation_timestamp |-> k,
     owner |-> r,
     statuses |-> "Empty",
     events |-> <<"POD_CREATED">>]

\* _create_pod with owner_references left empty
_create_pod_no_owner(r, spec, k) ==
    [phase |-> "PENDING",
     labels |-> Update(spec.template.labels, spec.selector),
     creation_timestamp |-> k,
     owner |-> 0,
     statuses |-> "Empty",
     events |-> <<"POD_CREATED">>]

\* ReplicaSet._create_pod: the k-th Pod object ever built, owned by r
\* (creation_timestamp: datetime.now() grows with every construction)
_create_pod(r, spec, k) ==
    [phase |-> "PENDING",
     labels |-> Update(spec.template.labels, spec.selector),
     creation_timestamp |-> k,
     owner |-> r,
     statuses |-> "Empty",
     events |-> <<"POD_CREATED">>]

\* Pod.phase setter: the event it records
SetPhase(p, new_phase) ==
    [p EXCEPT !.phase = new_phase,
              !.events = Append(@, IF new_phase = "RUNNING" THEN "POD_STARTED"
                                   ELSE "POD_TERMINATED")]

\* sorted(pods, key=creation_timestamp, reverse=True): stable insertion
InsertDesc(sorted, p) ==
    LET n == Cardinality({i \in 1..Len(sorted) :
                 pod[sorted[i]].creation_timestamp >= pod[p].creation_timestamp})
    IN SubSeq(sorted, 1, n) \o <<p>> \o SubSeq(sorted, n + 1, Len(sorted))

RECURSIVE SortedNewestFirst(_)
SortedNewestFirst(pods) ==
    IF pods = <<>> THEN <<>>
    ELSE InsertDesc(SortedNewestFirst(SubSeq(pods, 1, Len(pods) - 1)), pods[Len(pods)])

\* _scale_down's choice with the oldest pods first
pods_to_delete_oldest(pods, count) ==
    LET s == SortedNewestFirst(pods)
    IN [i \in 1..Min(count, Len(s)) |-> s[Len(s) + 1 - i]]

\* _scale_down: sorted(...)[:count]
pods_to_delete(pods, count) ==
    SubSeq(SortedNewestFirst(pods), 1, Min(count, Len(pods)))

\* _scale_down without the removal loop
PopPodsNone(pods, victims) == pods

\* for pod in ...: self._pods.pop(pod.metadata.uid, None)
PopPods(pods, victims) == SelectSeq(pods, LAMBDA p : p \notin Range(victims))

\* ended: history, a direct reconcile() call on the group has returned or raised
IdleCall ==
    [pc |-> "idle", current_pods |-> <<>>, desired |-> 0,
     batch |-> <<>>, task |-> <<>>, exc |-> None,
     pre |-> [pods |-> <<>>, phase |-> <<>>, gen |-> 0], ended |-> FALSE]

InFlight(r, c) == call[r][c].pc \in {"scheduled", "up_wait", "down_wait", "replace_wait"}

\* the batch not awaited: reconcile() goes on at once
AllTasksDoneNoWait(cl) == TRUE

\* await asyncio.gather(*tasks) resumes once every task of the batch is done
AllTasksDone(cl) == \A i \in 1..Len(cl.task) : cl.task[i] = "done"

\* ------------------------------------------------------------------ Init
Init ==
    /\ replica_sets = [n \in Names |-> 0]
    /\ rs = <<>>
    /\ pod = <<>>
    /\ call = [r \in RSIds |-> [c \in Callers |-> IdleCall]]
    /\ runpc = "idle"
    /\ running = FALSE
    /\ chaos = [enabled |-> FALSE, pc |-> "idle", target |-> 0, kills |-> 0]
    /\ raised = None
    /\ stopped = FALSE


\* ------------------------------------------------------------------ public calls
\* create_replica_set without the "name in self.replica_sets" check
create_replica_set_overwrite(name, replicas, selector, template) ==
    /\ Len(rs) < MaxRS
    /\ rs' = Append(rs, update_spec(NewReplicaSet(name),
                                    ReplicaSetSpec(replicas, selector, template)))
    /\ replica_sets' = [replica_sets EXCEPT ![name] = Len(rs) + 1]
    /\ raised' = None
    /\ UNCHANGED <<pod, call, runpc, running, chaos, stopped>>

\* ControllerManager.create_replica_set
create_replica_set(name, replicas, selector, template) ==
    IF replica_sets[name] # 0
    THEN /\ raised' = "ValueError"
         /\ UNCHANGED <<replica_sets, rs, pod, call, runpc, running, chaos, stopped>>
    ELSE /\ Len(rs) < MaxRS
         /\ rs' = Append(rs, update_spec(NewReplicaSet(name),
                                         ReplicaSetSpec(replicas, selector, template)))
         /\ replica_sets' = [replica_sets EXCEPT ![name] = Len(rs) + 1]
         /\ raised' = None
         /\ UNCHANGED <<pod, call, runpc, running, chaos, stopped>>

\* ReplicaSet(name): a group built directly, with no spec and not registered
ConstructReplicaSet(name) ==
    /\ Len(rs) < MaxRS
    /\ rs' = Append(rs, NewReplicaSet(name))
    /\ raised' = None
    /\ UNCHANGED <<replica_sets, pod, call, runpc, running, chaos, stopped>>

\* rs.update_spec(spec) called by the host
UpdateSpec(r, spec) ==
    /\ r \in 1..Len(rs)
    /\ rs[r].generation < MaxGeneration
    /\ rs' = [rs EXCEPT ![r] = update_spec(rs[r], spec)]
    /\ raised' = None
    /\ UNCHANGED <<replica_sets, pod, call, runpc, running, chaos, stopped>>

\* ------------------------------------------------------------------ reconcile
\* reconcile() returns (exc = None) or raises exc.  Under the controller the
\* call is wrapped by _reconcile_replica_set, which logs exc; a direct caller
\* receives it.
Return(r, c, exc) ==
    /\ call' = [call EXCEPT ![r][c] =
                   IF c = "ctl" THEN [IdleCall EXCEPT !.pc = "done", !.exc = exc]
                   ELSE [IdleCall EXCEPT !.ended = TRUE]]
    /\ raised' = IF c = "api" THEN exc ELSE raised

\* _scale_up(count) up to its await asyncio.gather(*tasks); rsrec is r's
\* record as left by the caller, cl the call's locals
ScaleUp(r, c, rsrec, count, cl, nextpc) ==
    IF CreatePodRaises(SpecOf(r))
    THEN /\ rs' = [rs EXCEPT ![r] = rsrec]
         /\ pod' = pod
         /\ Return(r, c, "TypeError")
    ELSE /\ Len(pod) + count <= MaxPods
         /\ LET ids == [i \in 1..count |-> Len(pod) + i]
            IN /\ pod' = pod \o [i \in 1..count |-> _create_pod(r, SpecOf(r), Len(pod) + i)]
               /\ rs' = [rs EXCEPT ![r] =
                            [rsrec EXCEPT !.pods = @ \o ids,
                                          !.metrics.pods_created = @ + count]]
               /\ call' = [call EXCEPT ![r][c] =
                              [cl EXCEPT !.pc = nextpc, !.batch = ids,
                                         !.task = [i \in 1..count |-> "scheduled"]]]
               /\ raised' = raised

\* _replace_failed_pods(current_pods), then the observed-generation update
ReplaceFailed(r, c, rsrec, cl) ==
    LET failed_pods == SelectSeq(cl.current_pods, LAMBDA p : pod[p].phase = "FAILED")
    IN IF failed_pods = <<>>
       THEN /\ rs' = [rs EXCEPT ![r] =
                         [rsrec EXCEPT !.observed_generation = rsrec.generation]]
            /\ pod' = pod
            /\ Return(r, c, None)
       ELSE ScaleUp(r, c, [rsrec EXCEPT !.pods = PopPods(@, failed_pods)],
                    Len(failed_pods), cl, "replace_wait")

\* _scale_down(count, pods) up to its await asyncio.gather(*tasks)
ScaleDown(r, c, rsrec, count, cl) ==
    LET victims == pods_to_delete(cl.current_pods, count)
        rs2 == [rsrec EXCEPT !.metrics.pods_deleted = @ + Len(victims)]
    IN IF victims = <<>>
       THEN ReplaceFailed(r, c, rs2, cl)
       ELSE /\ rs' = [rs EXCEPT ![r] = rs2]
            /\ pod' = pod
            /\ call' = [call EXCEPT ![r][c] =
                           [cl EXCEPT !.pc = "down_wait", !.batch = victims,
                                      !.task = [i \in 1..Len(victims) |-> "scheduled"]]]
            /\ raised' = raised

\* the scaling decision with "<=" in its first test
ScaleDecision_le(current_count, desired_count) ==
    IF current_count <= desired_count THEN "up"
    ELSE "down"

\* the scaling decision without its scale-down branch
ScaleDecision_no_down(current_count, desired_count) ==
    IF current_count < desired_count THEN "up"
    ELSE "none"

\* reconcile(): the scaling decision
ScaleDecision(current_count, desired_count) ==
    IF current_count < desired_count THEN "up"
    ELSE IF current_count > desired_count THEN "down"
    ELSE "none"

\* reconcile() with the reconcile_count update ahead of the spec test
reconcile_no_spec_counted(rsrec) ==
    [rsrec EXCEPT !.metrics.reconcile_count = @ + 1]

\* reconcile(): "if not self.spec: return" comes before any write
reconcile_no_spec(rsrec) == rsrec

\* reconcile() from its first line to its first suspension
ReconcileBegin(r, c) ==
    /\ r \in 1..Len(rs)
    /\ call[r][c].pc = IF c = "ctl" THEN "scheduled" ELSE "idle"
    /\ IF ~HasSpec(r)
       THEN /\ rs' = [rs EXCEPT ![r] = reconcile_no_spec(rs[r])]
            /\ pod' = pod
            /\ Return(r, c, None)
       ELSE /\ rs[r].metrics.reconcile_count < MaxReconciles
            /\ LET rs1 == [rs[r] EXCEPT !.metrics.reconcile_count = @ + 1]
                   current_pods == get_matching_pods(r)
                   current_count == Len(current_pods)
                   desired_count == SpecOf(r).replicas
                   decision == ScaleDecision(current_count, desired_count)
                   cl == [call[r][c] EXCEPT
                             !.current_pods = current_pods,
                             !.desired = desired_count,
                             !.pre = [pods |-> rs[r].pods,
                                      phase |-> [i \in 1..Len(rs[r].pods) |->
                                                    pod[rs[r].pods[i]].phase],
                                      gen |-> rs[r].generation]]
               IN IF decision = "up"
                  THEN ScaleUp(r, c, rs1, desired_count - current_count, cl, "up_wait")
                  ELSE IF decision = "down"
                  THEN ScaleDown(r, c, rs1, current_count - desired_count, cl)
                  ELSE ReplaceFailed(r, c, rs1, cl)
    /\ UNCHANGED <<replica_sets, runpc, running, chaos, stopped>>

SetTask(r, c, i, st) == [call EXCEPT ![r][c].task[i] = st]

\* start() without its phase test
start_returns_early_never(p) == FALSE

\* Pod.start(): "if self.phase != PodPhase.PENDING: return"
start_returns_early(p) == p.phase # "PENDING"

\* terminate() without its phase test
terminate_returns_early_never(p) == FALSE

\* Pod.terminate(): "if self.phase in [SUCCEEDED, FAILED, TERMINATING]: return"
terminate_returns_early(p) == p.phase \in TerminalPhases

\* Pod.start(): the task's first step, up to await asyncio.sleep
StartBegin(r, c, i) ==
    /\ call[r][c].pc \in {"up_wait", "replace_wait"}
    /\ i \in 1..Len(call[r][c].task)
    /\ call[r][c].task[i] = "scheduled"
    /\ call' = SetTask(r, c, i, IF start_returns_early(pod[call[r][c].batch[i]])
                                THEN "done" ELSE "sleeping")
    /\ UNCHANGED <<replica_sets, rs, pod, runpc, running, chaos, raised, stopped>>

\* Pod.start() after the sleep: random.random() < 0.1 is the failure
start_result(p, ok) ==
    IF ok
    THEN [SetPhase(p, "RUNNING") EXCEPT !.statuses = "Running"]
    ELSE [SetPhase(p, "FAILED") EXCEPT !.events = Append(@, "POD_FAILED")]

StartFinish(r, c, i, ok) ==
    /\ call[r][c].pc \in {"up_wait", "replace_wait"}
    /\ i \in 1..Len(call[r][c].task)
    /\ call[r][c].task[i] = "sleeping"
    /\ pod' = [pod EXCEPT ![call[r][c].batch[i]] = start_result(@, ok)]
    /\ call' = SetTask(r, c, i, "done")
    /\ UNCHANGED <<replica_sets, rs, runpc, running, chaos, raised, stopped>>

\* Pod.terminate(): the task's first step, up to await asyncio.sleep
TermBegin(r, c, i) ==
    /\ call[r][c].pc = "down_wait"
    /\ i \in 1..Len(call[r][c].task)
    /\ call[r][c].task[i] = "scheduled"
    /\ LET p == call[r][c].batch[i]
       IN IF terminate_returns_early(pod[p])
          THEN /\ pod' = pod
               /\ call' = SetTask(r, c, i, "done")
          ELSE /\ pod' = [pod EXCEPT ![p] = SetPhase(@, "TERMINATING")]
               /\ call' = SetTask(r, c, i, "sleeping")
    /\ UNCHANGED <<replica_sets, rs, runpc, running, chaos, raised, stopped>>

\* Pod.terminate() after the sleep
terminate_result(p) == [SetPhase(p, "SUCCEEDED") EXCEPT !.statuses = "Terminated"]

TermFinish(r, c, i) ==
    /\ call[r][c].pc = "down_wait"
    /\ i \in 1..Len(call[r][c].task)
    /\ call[r][c].task[i] = "sleeping"
    /\ pod' = [pod EXCEPT ![call[r][c].batch[i]] = terminate_result(@)]
    /\ call' = SetTask(r, c, i, "done")
    /\ UNCHANGED <<replica_sets, rs, runpc, running, chaos, raised, stopped>>

\* reconcile() resumed after _scale_up's gather
UpResume(r, c) ==
    /\ call[r][c].pc = "up_wait"
    /\ AllTasksDone(call[r][c])
    /\ ReplaceFailed(r, c, rs[r], call[r][c])
    /\ UNCHANGED <<replica_sets, runpc, running, chaos, stopped>>

\* reconcile() resumed after _scale_down's gather: the victims are popped
DownResume(r, c) ==
    /\ call[r][c].pc = "down_wait"
    /\ AllTasksDone(call[r][c])
    /\ ReplaceFailed(r, c, [rs[r] EXCEPT !.pods = PopPods(@, call[r][c].batch)],
                     call[r][c])
    /\ UNCHANGED <<replica_sets, runpc, running, chaos, stopped>>

\* reconcile() resumed after the gather of _replace_failed_pods' _scale_up
ReplaceResume(r, c) ==
    /\ call[r][c].pc = "replace_wait"
    /\ AllTasksDone(call[r][c])
    /\ rs' = [rs EXCEPT ![r].observed_generation = rs[r].generation]
    /\ pod' = pod
    /\ Return(r, c, None)
    /\ UNCHANGED <<replica_sets, runpc, running, chaos, stopped>>


\* ------------------------------------------------------------------ controller
Registered == {replica_sets[n] : n \in Names} \ {0}

\* self.replica_sets.items(): a dict iterates in insertion order, the order
\* in which the groups were registered
RegisteredNames == {n \in Names : replica_sets[n] # 0}

RegisteredItems == SelectSeq([i \in 1..Len(rs) |-> i], LAMBDA r : r \in Registered)

\* get_cluster_status's loop with "=" in place of "+="
RECURSIVE AccumulateStatusLast(_, _)
AccumulateStatusLast(items, acc) ==
    IF items = <<>> THEN acc
    ELSE LET status == get_status(Head(items))
         IN AccumulateStatusLast(Tail(items),
                [total_pods |-> status.replicas,
                 ready_pods |-> status.readyReplicas])

\* get_cluster_status: for name, rs in self.replica_sets.items()
RECURSIVE AccumulateStatus(_, _)
AccumulateStatus(items, acc) ==
    IF items = <<>> THEN acc
    ELSE LET status == get_status(Head(items))
         IN AccumulateStatus(Tail(items),
                [total_pods |-> acc.total_pods + status.replicas,
                 ready_pods |-> acc.ready_pods + status.readyReplicas])

\* ControllerManager.get_cluster_status
get_cluster_status ==
    LET acc == AccumulateStatus(RegisteredItems, [total_pods |-> 0, ready_pods |-> 0])
    IN [replicaSets |-> Cardinality(RegisteredNames),
        totalPods |-> acc.total_pods,
        readyPods |-> acc.ready_pods,
        replicaSetStatuses |-> [n \in RegisteredNames |-> get_status(replica_sets[n])]]

\* run(): the tick awaits bare rs.reconcile() calls, so an exception of one
\* of them is raised out of the await
TickOutcomeBare(excs) ==
    IF \E e \in excs : e # None THEN "raise" ELSE "continue"

\* _reconcile_replica_set: what the wrapper task lets out of a reconcile()
\* that raised exc ("except Exception" swallows and logs)
WrapperResult(exc) == IF exc \in Exceptions THEN None ELSE exc

\* run(): await asyncio.gather(*tasks, return_exceptions=True) over the
\* wrapper tasks never raises what a task raised
TickOutcome(excs) ==
    LET return_exceptions == TRUE
        results == {WrapperResult(e) : e \in excs}
    IN IF ~return_exceptions /\ \E e \in results : e # None
       THEN "raise" ELSE "continue"

\* run(): one pass of the while body up to its first suspension
TickBody ==
    IF Registered # {}
    THEN /\ call' = [r \in RSIds |->
                        IF r \in Registered
                        THEN [call[r] EXCEPT !["ctl"] = [IdleCall EXCEPT !.pc = "scheduled"]]
                        ELSE call[r]]
         /\ runpc' = "gather"
    ELSE /\ call' = call
         /\ runpc' = "sleeping"

\* asyncio.create_task(manager.run())
RunCreate ==
    /\ runpc = "idle"
    /\ runpc' = "created"
    /\ UNCHANGED <<replica_sets, rs, pod, call, running, chaos, raised, stopped>>

\* run(): first step of the task
RunEnter ==
    /\ runpc = "created"
    /\ running' = TRUE
    /\ TickBody
    /\ UNCHANGED <<replica_sets, rs, pod, chaos, raised, stopped>>

\* run() going on to its sleep without awaiting the gather of the tick
TickDone_early ==
    /\ runpc = "gather"
    /\ runpc' = "sleeping"
    /\ call' = call
    /\ UNCHANGED <<replica_sets, rs, pod, running, chaos, raised, stopped>>

\* run(): the gather of the tick's tasks completes; then asyncio.sleep
TickDone ==
    /\ runpc = "gather"
    /\ \A r \in RSIds : call[r]["ctl"].pc \in {"idle", "done"}
    /\ LET excs == {call[r]["ctl"].exc : r \in {x \in RSIds : call[x]["ctl"].pc = "done"}}
       IN runpc' = IF TickOutcome(excs) = "raise" THEN "raised" ELSE "sleeping"
    /\ call' = [r \in RSIds |-> [call[r] EXCEPT !["ctl"] = IdleCall]]
    /\ UNCHANGED <<replica_sets, rs, pod, running, chaos, raised, stopped>>

\* run(): the sleep of RECONCILE_INTERVAL ends; while self._running
Wake ==
    /\ runpc = "sleeping"
    /\ IF running
       THEN TickBody
       ELSE /\ runpc' = "returned"
            /\ call' = call
    /\ UNCHANGED <<replica_sets, rs, pod, running, chaos, raised, stopped>>

\* ControllerManager.stop(): the executor has no work, shutdown returns at once
Stop ==
    /\ running' = FALSE
    /\ stopped' = TRUE
    /\ raised' = None
    /\ UNCHANGED <<replica_sets, rs, pod, call, runpc, chaos>>

\* controller_task.cancel() and await controller_task, as the demo does after
\* stop(): CancelledError unwinds run(), its gather, the reconcile() calls
\* and their start()/terminate() tasks
CancelRun ==
    /\ ~running
    /\ runpc \in {"created", "gather", "sleeping"}
    /\ runpc' = "cancelled"
    /\ call' = [r \in RSIds |-> [call[r] EXCEPT !["ctl"] = IdleCall]]
    /\ UNCHANGED <<replica_sets, rs, pod, running, chaos, raised, stopped>>

\* ------------------------------------------------------------------ ChaosMonkey
ChaosEnable ==
    /\ chaos' = [chaos EXCEPT !.enabled = TRUE]
    /\ UNCHANGED <<replica_sets, rs, pod, call, runpc, running, raised, stopped>>

ChaosDisable ==
    /\ chaos' = [chaos EXCEPT !.enabled = FALSE]
    /\ UNCHANGED <<replica_sets, rs, pod, call, runpc, running, raised, stopped>>

\* asyncio.create_task(chaos.run(rs))
ChaosCreate(r) ==
    /\ chaos.pc = "idle"
    /\ r \in 1..Len(rs)
    /\ chaos' = [chaos EXCEPT !.pc = "created", !.target = r]
    /\ UNCHANGED <<replica_sets, rs, pod, call, runpc, running, raised, stopped>>

ChaosLoop == IF chaos.enabled THEN "sleeping" ELSE "exited"

\* ChaosMonkey.run(): first step of the task
ChaosEnter ==
    /\ chaos.pc = "created"
    /\ chaos' = [chaos EXCEPT !.pc = ChaosLoop]
    /\ UNCHANGED <<replica_sets, rs, pod, call, runpc, running, raised, stopped>>

\* ChaosMonkey.run(): the sleep ends, random.random() >= failure_rate or no pod
ChaosSpare ==
    /\ chaos.pc = "sleeping"
    /\ chaos' = [chaos EXCEPT !.pc = ChaosLoop]
    /\ UNCHANGED <<replica_sets, rs, pod, call, runpc, running, raised, stopped>>

\* ChaosMonkey.run(): the sleep ends, victim = random.choice(pods)
ChaosKill(i) ==
    /\ chaos.pc = "sleeping"
    /\ chaos.kills < MaxChaosKills
    /\ i \in 1..Len(get_matching_pods(chaos.target))
    /\ pod' = [pod EXCEPT ![get_matching_pods(chaos.target)[i]] = SetPhase(@, "FAILED")]
    /\ chaos' = [chaos EXCEPT !.pc = ChaosLoop, !.kills = @ + 1]
    /\ UNCHANGED <<replica_sets, rs, call, runpc, running, raised, stopped>>

\* ------------------------------------------------------------------ specification
\* One group, reconciled by direct reconcile() calls of the host, with spec
\* updates and the ChaosMonkey.
CreateInputs ==
    {ReplicaSetSpec(n, SelWeb, TplTier) : n \in 0..MaxReplicas}

UpdateInputs ==
    {ReplicaSetSpec(n, s, TplTier) : n \in ReplicaCounts, s \in Selectors}

Next ==
    \/ \E sp \in CreateInputs :
          create_replica_set("web", sp.replicas, sp.selector, sp.template)
    \/ \E r \in RSIds, sp \in UpdateInputs : UpdateSpec(r, sp)
    \/ \E r \in RSIds : ReconcileBegin(r, "api")
    \/ \E r \in RSIds, i \in 1..MaxPods : StartBegin(r, "api", i)
    \/ \E r \in RSIds, i \in 1..MaxPods, ok \in BOOLEAN : StartFinish(r, "api", i, ok)
    \/ \E r \in RSIds, i \in 1..MaxPods : TermBegin(r, "api", i)
    \/ \E r \in RSIds, i \in 1..MaxPods : TermFinish(r, "api", i)
    \/ \E r \in RSIds : UpResume(r, "api")
    \/ \E r \in RSIds : DownResume(r, "api")
    \/ \E r \in RSIds : ReplaceResume(r, "api")
    \/ ChaosEnable
    \/ \E r \in RSIds : ChaosCreate(r)
    \/ ChaosEnter
    \/ ChaosSpare
    \/ \E i \in 1..MaxPods : ChaosKill(i)

Spec == Init /\ [][Next]_vars


\* ------------------------------------------------------------------ controller specifications
\* Up to MaxRS groups under ControllerManager.run(), with stop() and the
\* demo's cancellation; a template may make _create_pod raise.
CtlInputs ==
    {ReplicaSetSpec(n, SelWeb, t) : n \in 0..MaxReplicas, t \in {TplPlain, TplBad}}

CtlSteps ==
    \/ RunCreate
    \/ RunEnter
    \/ \E r \in RSIds : ReconcileBegin(r, "ctl")
    \/ \E r \in RSIds, i \in 1..MaxPods : StartBegin(r, "ctl", i)
    \/ \E r \in RSIds, i \in 1..MaxPods : StartFinish(r, "ctl", i, TRUE)
    \/ \E r \in RSIds : UpResume(r, "ctl")
    \/ TickDone
    \/ Wake

CtlNext ==
    \/ \E n \in Names, sp \in CtlInputs :
          create_replica_set(n, sp.replicas, sp.selector, sp.template)
    \/ CtlSteps
    \/ \E r \in RSIds, i \in 1..MaxPods : StartFinish(r, "ctl", i, FALSE)
    \/ Stop
    \/ CancelRun

CtlSpec == Init /\ [][CtlNext]_vars

\* The controller left running: the groups are created before run() is
\* started and never ask for more pods than the model holds; start() fails
\* at most MaxStartFailures times.
StartFailures ==
    Cardinality({p \in 1..Len(pod) :
                    \E i \in 1..Len(pod[p].events) : pod[p].events[i] = "POD_FAILED"})

Demand ==
    LET good == {r \in 1..Len(rs) : ~CreatePodRaises(SpecOf(r))}
        RECURSIVE Sum(_)
        Sum(S) == IF S = {} THEN 0
                  ELSE LET x == CHOOSE x \in S : TRUE
                       IN SpecOf(x).replicas + Sum(S \ {x})
    IN Sum(good)

FairNext ==
    \/ \E n \in Names, sp \in CtlInputs :
          /\ runpc = "idle"
          /\ CreatePodRaises(sp) \/ Demand + sp.replicas + MaxStartFailures <= MaxPods
          /\ create_replica_set(n, sp.replicas, sp.selector, sp.template)
    \/ CtlSteps
    \/ \E r \in RSIds, i \in 1..MaxPods :
          /\ StartFailures < MaxStartFailures
          /\ StartFinish(r, "ctl", i, FALSE)

FairSpec == Init /\ [][FairNext]_vars /\ WF_vars(CtlSteps)

\* ------------------------------------------------------------------ direct specification
\* One group built directly with ReplicaSet(name), which has no spec until
\* the host calls update_spec, reconciled by direct reconcile() calls.
BareInputs ==
    {ReplicaSetSpec(n, SelWeb, TplPlain) : n \in 0..MaxReplicas}

BareNext ==
    \/ \E n \in Names : rs = <<>> /\ ConstructReplicaSet(n)
    \/ \E r \in RSIds, sp \in BareInputs : UpdateSpec(r, sp)
    \/ \E r \in RSIds : ReconcileBegin(r, "api")
    \/ \E r \in RSIds, i \in 1..MaxPods : StartBegin(r, "api", i)
    \/ \E r \in RSIds, i \in 1..MaxPods, ok \in BOOLEAN : StartFinish(r, "api", i, ok)
    \/ \E r \in RSIds, i \in 1..MaxPods : TermBegin(r, "api", i)
    \/ \E r \in RSIds, i \in 1..MaxPods : TermFinish(r, "api", i)
    \/ \E r \in RSIds : UpResume(r, "api")
    \/ \E r \in RSIds : DownResume(r, "api")

BareSpec == Init /\ [][BareNext]_vars


\* The controller left running with one stop() call made by the host at any
\* moment after asyncio.create_task(manager.run()).
StopNext ==
    \/ FairNext
    \/ /\ runpc # "idle"
       /\ ~stopped
       /\ Stop

StopSpec == Init /\ [][StopNext]_vars /\ WF_vars(CtlSteps)


\* ------------------------------------------------------------------ overlapping calls
\* One group reconciled by the controller while the host also calls its
\* reconcile() directly, so that two calls on the same group overlap: a
\* terminate() of one call can meet a start() of the other on the same pod.
OverlapInputs ==
    {ReplicaSetSpec(n, SelWeb, TplPlain) : n \in {0, MaxReplicas}}

CallSteps(c) ==
    \/ \E r \in RSIds : ReconcileBegin(r, c)
    \/ \E r \in RSIds, i \in 1..MaxPods : StartBegin(r, c, i)
    \/ \E r \in RSIds, i \in 1..MaxPods, ok \in BOOLEAN : StartFinish(r, c, i, ok)
    \/ \E r \in RSIds, i \in 1..MaxPods : TermBegin(r, c, i)
    \/ \E r \in RSIds, i \in 1..MaxPods : TermFinish(r, c, i)
    \/ \E r \in RSIds : UpResume(r, c)
    \/ \E r \in RSIds : DownResume(r, c)
    \/ \E r \in RSIds : ReplaceResume(r, c)

OverlapNext ==
    \/ \E sp \in OverlapInputs :
          rs = <<>> /\ create_replica_set("web", sp.replicas, sp.selector, sp.template)
    \/ \E r \in RSIds, sp \in OverlapInputs : UpdateSpec(r, sp)
    \/ RunCreate
    \/ RunEnter
    \/ TickDone
    \/ Wake
    \/ CallSteps("ctl")
    \/ CallSteps("api")
    \/ ChaosEnable
    \/ \E r \in RSIds : ChaosCreate(r)
    \/ ChaosEnter
    \/ ChaosSpare
    \/ \E i \in 1..MaxPods : ChaosKill(i)

OverlapSpec == Init /\ [][OverlapNext]_vars


\* ------------------------------------------------------------------ two groups
\* Two groups with the same selector under one controller: their
\* reconciliations are interleaved within a tick, and the host updates the
\* spec of either group at any moment.  With one reconcile() per group at a
\* time and no ChaosMonkey, no pod of a call's snapshot fails during the call,
\* so _replace_failed_pods never has a pod to replace here.
GroupInputs ==
    {ReplicaSetSpec(n, SelWeb, TplPlain) : n \in {0, MaxReplicas}}

GroupNext ==
    \/ \E n \in Names, sp \in GroupInputs :
          create_replica_set(n, sp.replicas, sp.selector, sp.template)
    \/ \E r \in RSIds, sp \in GroupInputs : UpdateSpec(r, sp)
    \/ RunCreate
    \/ RunEnter
    \/ TickDone
    \/ Wake
    \/ \E r \in RSIds : ReconcileBegin(r, "ctl")
    \/ \E r \in RSIds, i \in 1..MaxPods : StartBegin(r, "ctl", i)
    \/ \E r \in RSIds, i \in 1..MaxPods, ok \in BOOLEAN : StartFinish(r, "ctl", i, ok)
    \/ \E r \in RSIds, i \in 1..MaxPods : TermBegin(r, "ctl", i)
    \/ \E r \in RSIds, i \in 1..MaxPods : TermFinish(r, "ctl", i)
    \/ \E r \in RSIds : UpResume(r, "ctl")
    \/ \E r \in RSIds : DownResume(r, "ctl")

GroupSpec == Init /\ [][GroupNext]_vars


\* ------------------------------------------------------------------ host operations
\* One group under the controller with every operation the host has: creating
\* a group (also under a name already taken), update_spec, stop(), and the
\* ChaosMonkey with enable() and disable() called at any moment.
HostNext ==
    \/ \E sp \in OverlapInputs :
          create_replica_set("web", sp.replicas, sp.selector, sp.template)
    \/ \E r \in RSIds, sp \in OverlapInputs : UpdateSpec(r, sp)
    \/ RunCreate
    \/ RunEnter
    \/ TickDone
    \/ Wake
    \/ CallSteps("ctl")
    \/ Stop
    \/ ChaosEnable
    \/ ChaosDisable
    \/ \E r \in RSIds : ChaosCreate(r)
    \/ ChaosEnter
    \/ ChaosSpare
    \/ \E i \in 1..MaxPods : ChaosKill(i)

HostSpec == Init /\ [][HostNext]_vars


\* ------------------------------------------------------------------ stabilization
\* One group under the controller.  The host changes the spec (same selector)
\* and the ChaosMonkey fails pods only until the group's last reconcile() of
\* the run has begun; every start() succeeds; the steps of the controller and
\* of its reconcile() calls are taken under weak fairness.
StableInputs ==
    {ReplicaSetSpec(n, SelWeb, TplPlain) : n \in 0..MaxReplicas}

Disturbable ==
    /\ Len(rs) = 1
    /\ rs[1].metrics.reconcile_count < MaxReconciles

LoopSteps ==
    \/ RunCreate
    \/ RunEnter
    \/ TickDone
    \/ Wake
    \/ \E r \in RSIds : ReconcileBegin(r, "ctl")
    \/ \E r \in RSIds, i \in 1..MaxPods : StartBegin(r, "ctl", i)
    \/ \E r \in RSIds, i \in 1..MaxPods : StartFinish(r, "ctl", i, TRUE)
    \/ \E r \in RSIds, i \in 1..MaxPods : TermBegin(r, "ctl", i)
    \/ \E r \in RSIds, i \in 1..MaxPods : TermFinish(r, "ctl", i)
    \/ \E r \in RSIds : UpResume(r, "ctl")
    \/ \E r \in RSIds : DownResume(r, "ctl")
    \/ \E r \in RSIds : ReplaceResume(r, "ctl")

StableNext ==
    \/ \E sp \in StableInputs :
          /\ rs = <<>>
          /\ create_replica_set("web", sp.replicas, sp.selector, sp.template)
    \/ \E r \in RSIds, sp \in StableInputs : Disturbable /\ UpdateSpec(r, sp)
    \/ LoopSteps
    \/ ChaosEnable
    \/ ChaosDisable
    \/ \E r \in RSIds : ChaosCreate(r)
    \/ ChaosEnter
    \/ ChaosSpare
    \/ \E i \in 1..MaxPods : Disturbable /\ ChaosKill(i)

StableSpec == Init /\ [][StableNext]_vars /\ WF_vars(LoopSteps)


\* ------------------------------------------------------------------ claims
\* The matching non-terminal instances of a group, in the words of the
\* specification: owned, labels a superset of the selector, Pending or Running.
MatchingSet(r) ==
    {p \in Range(rs[r].pods) :
        /\ SpecOf(r).selector \subseteq pod[p].labels
        /\ pod[p].phase \in {"PENDING", "RUNNING"}}

\* reconcile() call c on r returns in this step
Resumes(r, c) == UpResume(r, c) \/ DownResume(r, c) \/ ReplaceResume(r, c)

Returns(r, c) ==
    /\ ReconcileBegin(r, c) \/ Resumes(r, c)
    /\ call'[r][c].pc \in {"idle", "done"}

\* C1 (FairSpec): a registered group whose template builds pods eventually
\* has exactly spec.replicas matching non-terminal instances.
C1_Convergence ==
    \A r \in RSIds :
        (r \in Registered /\ ~CreatePodRaises(SpecOf(r)))
            ~> (r \in Registered /\ Cardinality(MatchingSet(r)) = SpecOf(r).replicas)

C1_Witness ==
    \E r \in Registered :
        /\ SpecOf(r).replicas = MaxReplicas
        /\ Cardinality(MatchingSet(r)) = MaxReplicas
        /\ \A p \in MatchingSet(r) : pod[p].phase = "RUNNING"
        /\ StartFailures >= 1
        /\ rs[r].metrics.reconcile_count >= 2

\* C2 (as claimed): a reconcile() that began with desired - 1 Running
\* instances and one instance that ran and was then failed, with no spec
\* change, no further failure and every start() succeeding, returns with
\* the Failed instance out of the owned set, exactly one new instance and
\* the matching count back at desired.
C2_SelfHealing ==
    [][\A r \in RSIds, c \in Callers :
          (/\ Returns(r, c)
           /\ LET cl == call[r][c]
                  n == Len(cl.pre.pods)
              IN /\ n = cl.desired
                 /\ Len(cl.current_pods) = n - 1
                 /\ Cardinality({i \in 1..n : cl.pre.phase[i] = "FAILED"}) = 1
                 /\ Cardinality({i \in 1..n : cl.pre.phase[i] = "RUNNING"}) = n - 1
                 /\ \A i \in 1..n : cl.pre.phase[i] = "FAILED"
                       => \E j \in 1..Len(pod[cl.pre.pods[i]].events) :
                             pod[cl.pre.pods[i]].events[j] = "POD_STARTED"
                 /\ cl.pre.gen = rs[r].generation
                 /\ \A p \in Range(cl.current_pods) : pod[p].phase = "RUNNING"
                 /\ \A p \in Range(rs'[r].pods) \ Range(cl.pre.pods) :
                       pod'[p].phase = "RUNNING")
          => LET cl == call[r][c]
                 failed == {cl.pre.pods[i] : i \in {j \in 1..Len(cl.pre.pods) :
                                                      cl.pre.phase[j] = "FAILED"}}
             IN /\ failed \cap Range(rs'[r].pods) = {}
                /\ Cardinality(Range(rs'[r].pods) \ Range(cl.pre.pods)) = 1
                /\ Cardinality(MatchingSet(r))' = cl.desired]_vars

\* C3: a reconcile() that starts with the matching count at spec.replicas and
\* no owned instance Failed returns at once, creates and terminates nothing
\* and leaves the owned set and every phase as they were.
AtFixedPoint(r) ==
    /\ HasSpec(r)
    /\ Cardinality(MatchingSet(r)) = SpecOf(r).replicas
    /\ \A p \in Range(rs[r].pods) : pod[p].phase # "FAILED"

C3_Idempotent ==
    [][\A r \in RSIds, c \in Callers :
          (ReconcileBegin(r, c) /\ AtFixedPoint(r))
          => /\ pod' = pod
             /\ rs'[r].pods = rs[r].pods
             /\ rs'[r].metrics.pods_created = rs[r].metrics.pods_created
             /\ rs'[r].metrics.pods_deleted = rs[r].metrics.pods_deleted
             /\ call'[r][c].pc \in {"idle", "done"}]_vars

C3_Witness ==
    \E r \in 1..Len(rs) :
        /\ AtFixedPoint(r)
        /\ SpecOf(r).replicas >= 1
        /\ \A p \in MatchingSet(r) : pod[p].phase = "RUNNING"
        /\ rs[r].metrics.reconcile_count >= 2
        /\ rs[r].metrics.pods_created = SpecOf(r).replicas
        /\ rs[r].generation = 1
        /\ \A c \in Callers : call[r][c].pc = "idle"

\* C4: a reconcile() that finds current > desired by k selects exactly the k
\* matching instances with the latest creation timestamps; only selected
\* instances are moved to Terminating, and when the call resumes every other
\* instance of its snapshot that has not failed is still owned.
NewestK(S, k) ==
    {p \in S : Cardinality({q \in S : pod[q].creation_timestamp
                                        > pod[p].creation_timestamp}) < k}

C4_NewestFirst ==
    [][\A r \in RSIds, c \in Callers :
          /\ (ReconcileBegin(r, c) /\ call'[r][c].pc = "down_wait")
             => Range(call'[r][c].batch)
                  = NewestK(MatchingSet(r), Cardinality(MatchingSet(r)) - SpecOf(r).replicas)
          /\ call[r][c].pc = "down_wait"
             => /\ \A p \in 1..Len(pod) :
                      (pod[p].phase # "TERMINATING" /\ pod'[p].phase = "TERMINATING"
                       /\ \E i \in 1..MaxPods : TermBegin(r, c, i))
                      => p \in NewestK(Range(call[r][c].current_pods),
                                       Len(call[r][c].current_pods) - call[r][c].desired)
                /\ DownResume(r, c)
                      => \A p \in Range(call[r][c].current_pods) :
                            (p \notin Range(call[r][c].batch) /\ pod[p].phase # "FAILED"
                             /\ p \in Range(rs[r].pods))
                            => (p \in Range(rs'[r].pods) /\ pod'[p] = pod[p])]_vars

C4_Witness ==
    \E r \in 1..Len(rs) : \E p, q \in 1..Len(pod) :
        /\ pod[p].owner = r /\ pod[q].owner = r
        /\ pod[q].creation_timestamp < pod[p].creation_timestamp
        /\ pod[p].phase = "SUCCEEDED" /\ p \notin Range(rs[r].pods)
        /\ pod[q].phase = "RUNNING" /\ q \in Range(rs[r].pods)
        /\ call[r]["api"].pc = "idle"

\* C5: a reconcile() that began on a converged group (all owned instances
\* Running and matching) whose desired count d >= 0 is below their number c,
\* with no spec change and no failure meanwhile: when it resumes from the
\* scale-down, exactly c - d instances went Terminating then Succeeded and
\* leave the owned set, and exactly d matching instances remain.
C5_ScaleDown ==
    [][\A r \in RSIds, c \in Callers :
          (/\ DownResume(r, c)
           /\ LET cl == call[r][c]
              IN /\ Len(cl.pre.pods) = Len(cl.current_pods)
                 /\ \A i \in 1..Len(cl.pre.phase) : cl.pre.phase[i] = "RUNNING"
                 /\ cl.desired >= 0
                 /\ cl.pre.gen = rs[r].generation
                 /\ \A p \in Range(cl.current_pods) : pod[p].phase # "FAILED")
          => LET cl == call[r][c]
             IN /\ Len(cl.batch) = Len(cl.current_pods) - cl.desired
                /\ \A p \in Range(cl.batch) :
                      /\ pod[p].phase = "SUCCEEDED"
                      /\ Len(pod[p].events) >= 2
                      /\ SubSeq(pod[p].events, Len(pod[p].events) - 1, Len(pod[p].events))
                           = <<"POD_TERMINATED", "POD_TERMINATED">>
                /\ Range(rs'[r].pods) = Range(cl.pre.pods) \ Range(cl.batch)
                /\ Cardinality(MatchingSet(r))' = cl.desired]_vars

C5_Witness ==
    \E r \in 1..Len(rs) :
        /\ HasSpec(r)
        /\ rs[r].generation = 2
        /\ rs[r].observed_generation = 2
        /\ SpecOf(r).replicas >= 1
        /\ rs[r].metrics.pods_deleted >= 1
        /\ Cardinality(MatchingSet(r)) = SpecOf(r).replicas
        /\ Len(rs[r].pods) = SpecOf(r).replicas
        /\ \E p \in 1..Len(pod) : pod[p].owner = r /\ pod[p].phase = "SUCCEEDED"

\* C6 (as claimed): update_spec with replicas < 0 or an empty selector raises
\* InvalidSpecError and leaves the group as it was.
C6_InvalidSpecRejected ==
    [][\A r \in RSIds, sp \in UpdateInputs :
          (UpdateSpec(r, sp) /\ (sp.replicas < 0 \/ sp.selector = {}))
          => (raised' = "InvalidSpecError" /\ rs' = rs)]_vars

\* C7 (CtlSpec): create_replica_set with a registered name raises and leaves
\* the registry, every group and every pod as they were.
C7_DuplicateName ==
    [][\A n \in Names, sp \in CtlInputs :
          (create_replica_set(n, sp.replicas, sp.selector, sp.template)
           /\ replica_sets[n] # 0)
          => (/\ raised' \in Exceptions
              /\ UNCHANGED <<replica_sets, rs, pod, call>>)]_vars

C7_Witness ==
    /\ raised = "ValueError"
    /\ \E n \in Names :
          /\ replica_sets[n] # 0
          /\ rs[replica_sets[n]].pods # <<>>
          /\ rs[replica_sets[n]].generation = 1

\* C8: every instance get_matching_pods returns carries every key/value pair
\* of the group's current selector.
C8_LabelInvariant ==
    \A r \in 1..Len(rs) :
        \A p \in Range(get_matching_pods(r)) :
            SpecOf(r).selector \subseteq pod[p].labels

C8_Witness ==
    \E r \in 1..Len(rs) :
        /\ get_matching_pods(r) # <<>>
        /\ SpecOf(r).selector # {}
        /\ \E p \in Range(rs[r].pods) :
              /\ pod[p].phase = "RUNNING"
              /\ ~ (SpecOf(r).selector \subseteq pod[p].labels)

\* C9 (FairSpec): run() never ends with an exception; the step in which one
\* group's reconcile() raises leaves run() and the other groups' calls as
\* they were; every other call of the tick then finishes, and the next tick
\* reconciles the group again.
C9_ErrorIsolation ==
    /\ [](runpc # "raised")
    /\ [][\A r \in RSIds :
             (ReconcileBegin(r, "ctl") /\ call'[r]["ctl"].exc # None)
             => /\ runpc' = runpc
                /\ \A q \in RSIds \ {r} : call'[q] = call[q]]_vars
    /\ \A r \in RSIds : \A q \in RSIds \ {r} :
          (call[r]["ctl"].exc # None /\ InFlight(q, "ctl"))
              ~> (call[q]["ctl"].pc = "done")
    /\ \A r \in RSIds, k \in 1..(MaxReconciles - 1) :
          (call[r]["ctl"].exc # None /\ rs[r].metrics.reconcile_count = k)
              ~> (r \in 1..Len(rs) /\ rs[r].metrics.reconcile_count = k + 1)

C9_Witness ==
    \E r \in Registered, q \in Registered :
        /\ CreatePodRaises(SpecOf(r)) /\ SpecOf(r).replicas >= 1
        /\ rs[r].metrics.reconcile_count >= 2
        /\ call[r]["ctl"].exc # None
        /\ SpecOf(q).replicas >= 1
        /\ Cardinality(MatchingSet(q)) = SpecOf(q).replicas
        /\ \A p \in MatchingSet(q) : pod[p].phase = "RUNNING"

\* C10 (as claimed, CtlSpec): when stop() returns no reconcile() call of the
\* controller is still in progress.
C10_StopWaits ==
    [][Stop => (\A r \in RSIds : ~InFlight(r, "ctl"))']_vars

\* run() enters the body of "while self._running": a reconciliation tick begins
BeginsTick == RunEnter \/ (Wake /\ running)

\* C11 (as claimed, StopSpec): once stop() has been called, run() begins no
\* new reconciliation tick, and run() eventually returns.
C11_StopEndsLoop ==
    /\ [][stopped => ~BeginsTick]_vars
    /\ stopped ~> (runpc = "returned")

\* C12: in every state, also while a reconcile() of the group is suspended in
\* a batch, get_status() reports replicas = the number of owned, matching,
\* non-terminal instances, readyReplicas = the number of those that are
\* ready, availableReplicas = readyReplicas and 0 <= readyReplicas <= replicas.
C12_StatusSnapshot ==
    \A r \in 1..Len(rs) :
        LET st == get_status(r)
            matching == IF HasSpec(r) THEN MatchingSet(r) ELSE {}
        IN /\ st.replicas = Cardinality(matching)
           /\ st.readyReplicas = Cardinality({p \in matching : is_ready(p)})
           /\ st.availableReplicas = st.readyReplicas
           /\ 0 <= st.readyReplicas
           /\ st.readyReplicas <= st.replicas

C12_Witness ==
    \E r \in 1..Len(rs) :
        /\ InFlight(r, "api")
        /\ get_status(r).replicas = 2
        /\ get_status(r).readyReplicas = 1
        /\ \E p \in Range(rs[r].pods) : is_ready(p) /\ p \notin MatchingSet(r)

\* C13 (CtlSpec): get_cluster_status() reports as totals the sums of the
\* registered groups' status counts, as group count the size of the registry,
\* and never more ready instances than instances.
SumOfStatus(field) ==
    LET RECURSIVE Sum(_)
        Sum(S) == IF S = {} THEN 0
                  ELSE LET n == CHOOSE n \in S : TRUE
                       IN get_status(replica_sets[n])[field] + Sum(S \ {n})
    IN Sum(RegisteredNames)

C13_ClusterTotals ==
    LET cs == get_cluster_status
    IN /\ cs.totalPods = SumOfStatus("replicas")
       /\ cs.readyPods = SumOfStatus("readyReplicas")
       /\ cs.replicaSets = Cardinality(RegisteredNames)
       /\ cs.readyPods <= cs.totalPods

C13_Witness ==
    /\ Cardinality(RegisteredNames) = 2
    /\ \A n \in RegisteredNames : get_status(replica_sets[n]).replicas >= 1
    /\ get_cluster_status.totalPods = 3
    /\ get_cluster_status.readyPods = 2

\* C14 (BareSpec): reconcile() on a group with no spec returns in its first
\* step, raises nothing and leaves the owned set, the generation, the
\* observed generation, every metrics counter and every pod as they were.
C14_NoSpecNoOp ==
    [][\A r \in RSIds, c \in Callers :
          (ReconcileBegin(r, c) /\ ~HasSpec(r))
          => /\ rs'[r].pods = rs[r].pods
             /\ rs'[r].generation = rs[r].generation
             /\ rs'[r].observed_generation = rs[r].observed_generation
             /\ rs'[r].metrics = rs[r].metrics
             /\ rs' = rs
             /\ pod' = pod
             /\ ~InFlight(r, c)'
             /\ raised' = None]_vars

C14_Witness ==
    \E r \in 1..Len(rs) :
        /\ ~HasSpec(r)
        /\ call[r]["api"].ended
        /\ rs[r].metrics.reconcile_count = 0
        /\ rs[r].pods = <<>>

\* C15: the generation changes only in an update_spec step (the one inside
\* create_replica_set included), by exactly 1; the observed generation changes
\* only in the step in which a reconcile() returns, to the generation of that
\* moment; neither decreases, and 0 <= observed generation <= generation.
C15_Generations ==
    /\ [](\A r \in 1..Len(rs) :
             /\ 0 <= rs[r].observed_generation
             /\ rs[r].observed_generation <= rs[r].generation)
    /\ [][/\ \A r \in 1..Len(rs) :
               /\ (\E sp \in UpdateInputs : UpdateSpec(r, sp))
                     => rs'[r].generation = rs[r].generation + 1
               /\ rs'[r].generation # rs[r].generation
                     => \E sp \in UpdateInputs : UpdateSpec(r, sp)
               /\ rs'[r].observed_generation # rs[r].observed_generation
                     => /\ \E c \in Callers : Returns(r, c)
                        /\ rs'[r].observed_generation = rs'[r].generation
                        /\ rs'[r].generation = rs[r].generation
               /\ rs'[r].generation >= rs[r].generation
               /\ rs'[r].observed_generation >= rs[r].observed_generation
          /\ \A r \in (Len(rs) + 1)..Len(rs') :
               /\ rs'[r].generation = 1
               /\ rs'[r].observed_generation = 0]_vars

C15_Witness ==
    \E r \in 1..Len(rs) :
        /\ rs[r].generation = MaxGeneration
        /\ rs[r].observed_generation = MaxGeneration - 1
        /\ rs[r].metrics.reconcile_count >= 2
        /\ InFlight(r, "api")

\* C16 (as claimed): every phase change of every instance is one of
\* Pending->Running, Pending->Failed, Running->Failed,
\* {Pending, Running}->Terminating, Terminating->Succeeded.
LifecycleTransitions ==
    {<<"PENDING", "RUNNING">>, <<"PENDING", "FAILED">>, <<"RUNNING", "FAILED">>,
     <<"PENDING", "TERMINATING">>, <<"RUNNING", "TERMINATING">>,
     <<"TERMINATING", "SUCCEEDED">>}

C16_Lifecycle ==
    [][\A p \in 1..Len(pod) :
          pod'[p].phase # pod[p].phase
          => <<pod[p].phase, pod'[p].phase>> \in LifecycleTransitions]_vars

\* C17 (as claimed): every owned instance in phase Pending or Running has
\* labels that contain every key/value pair of the group's current selector
\* (stated for groups whose spec has replicas >= 0).
C17_OwnedLabels ==
    \A r \in 1..Len(rs) :
        (HasSpec(r) /\ SpecOf(r).replicas >= 0)
        => \A p \in Range(get_owned_pods(r)) :
              pod[p].phase \in {"PENDING", "RUNNING"}
              => \A kv \in SpecOf(r).selector : kv \in pod[p].labels

\* The owned instances that were Failed when the reconcile() call c on r that
\* returns in this step began
FailedAtBegin(r, c) ==
    IF ReconcileBegin(r, c)
    THEN {p \in Range(rs[r].pods) : pod[p].phase = "FAILED"}
    ELSE {call[r][c].pre.pods[i] : i \in {j \in 1..Len(call[r][c].pre.pods) :
                                              call[r][c].pre.phase[j] = "FAILED"}}

\* C18 (as claimed): when a reconcile() returns, the owned set holds no
\* instance that was already Failed when that reconcile() began (stated for
\* a group whose spec is the valid one it was created with).
C18_FailedRemoved ==
    [][\A r \in RSIds, c \in Callers :
          (/\ Returns(r, c)
           /\ HasSpec(r) /\ SpecOf(r).replicas >= 0 /\ SpecOf(r).selector # {}
           /\ rs[r].generation = 1)
          => FailedAtBegin(r, c) \cap Range(rs'[r].pods) = {}]_vars

\* C19: the step of reconcile() that finds current < desired adds exactly
\* desired - current new instances to the owned set, with no start() begun
\* yet; each is Pending, owned by this group, and labelled with the template
\* labels overridden by the selector.
C19_ScaleUpStep ==
    [][\A r \in RSIds, c \in Callers :
          (/\ ReconcileBegin(r, c)
           /\ HasSpec(r)
           /\ Cardinality(MatchingSet(r)) < SpecOf(r).replicas
           /\ ~CreatePodRaises(SpecOf(r)))
          => LET k == SpecOf(r).replicas - Cardinality(MatchingSet(r))
                 new == Range(rs'[r].pods) \ Range(rs[r].pods)
                 sel == SpecOf(r).selector
                 tpl == SpecOf(r).template.labels
             IN /\ Cardinality(new) = k
                /\ Range(rs[r].pods) \subseteq Range(rs'[r].pods)
                /\ Len(rs'[r].pods) = Len(rs[r].pods) + k
                /\ new = (Len(pod) + 1)..Len(pod')
                /\ \A p \in 1..Len(pod) : pod'[p] = pod[p]
                /\ \A p \in new :
                      /\ pod'[p].phase = "PENDING"
                      /\ pod'[p].owner = r
                      /\ sel \subseteq pod'[p].labels
                      /\ \A kv \in tpl :
                            kv \in pod'[p].labels <=> ~ \E s \in sel : s[1] = kv[1] /\ s[2] # kv[2]
                      /\ pod'[p].labels \subseteq sel \cup tpl
                /\ call'[r][c].pc = "up_wait"
                /\ Range(call'[r][c].batch) = new
                /\ \A i \in 1..Len(call'[r][c].task) : call'[r][c].task[i] = "scheduled"]_vars

C19_Witness ==
    \E r \in 1..Len(rs) :
        /\ call[r]["api"].pc = "up_wait"
        /\ Len(call[r]["api"].batch) = 2
        /\ \A i \in 1..2 : call[r]["api"].task[i] = "scheduled"
        /\ \E kv \in SpecOf(r).template.labels : \E s \in SpecOf(r).selector :
              s[1] = kv[1] /\ s[2] # kv[2]
        /\ \A p \in Range(call[r]["api"].batch) :
              /\ pod[p].phase = "PENDING"
              /\ pod[p].labels = {<<"app", "web">>, <<"tier", "fe">>}

\* C20: reconcile() resumes from a scale-up only when every start() of the
\* batch has finished and from a scale-down only when every terminate() of
\* the batch has finished; when the call returns, no instance it created is
\* Pending and no instance of its snapshot is Terminating, and a victim is
\* out of the owned set from the step that resumes the scale-down.
C20_Barrier ==
    [][\A r \in RSIds, c \in Callers :
          /\ (UpResume(r, c) \/ ReplaceResume(r, c))
                => \A i \in 1..Len(call[r][c].batch) :
                      /\ call[r][c].task[i] = "done"
                      /\ pod[call[r][c].batch[i]].phase # "PENDING"
          /\ DownResume(r, c)
                => \A i \in 1..Len(call[r][c].batch) :
                      /\ call[r][c].task[i] = "done"
                      /\ pod[call[r][c].batch[i]].phase # "TERMINATING"
                      /\ call[r][c].batch[i] \notin Range(rs'[r].pods)
          /\ (Resumes(r, c) /\ Returns(r, c))
                => /\ \A p \in Range(rs'[r].pods) \ Range(call[r][c].pre.pods) :
                         pod'[p].phase # "PENDING"
                   /\ \A p \in Range(call[r][c].pre.pods) :
                         pod'[p].phase # "TERMINATING"]_vars

C20_Witness ==
    \E r \in 1..Len(rs) :
        /\ call[r]["api"].pc = "idle"
        /\ call[r]["api"].ended
        /\ rs[r].metrics.pods_created >= 2
        /\ rs[r].metrics.pods_deleted >= 1
        /\ \A p \in Range(rs[r].pods) : pod[p].phase \notin {"PENDING", "TERMINATING"}
        /\ \E p \in 1..Len(pod) : pod[p].phase = "SUCCEEDED" /\ p \notin Range(rs[r].pods)
        /\ \E p \in Range(rs[r].pods) : pod[p].phase = "RUNNING"

\* C21: within one reconcile() call the scale-up or the scale-down, never
\* both, is chosen from the one count taken in the call's first step; the
\* replacement of failed instances begins only when that step's batch is
\* complete; the observed generation is written only in the step in which the
\* call returns, with no batch of the call left unfinished.
C21_StepOrder ==
    [][\A r \in RSIds, c \in Callers :
          LET cl == call[r][c]
              cl2 == call'[r][c]
          IN /\ ReconcileBegin(r, c) /\ HasSpec(r)
                   => LET current == Cardinality(MatchingSet(r))
                          desired == SpecOf(r).replicas
                      IN /\ cl2.pc = "up_wait" <=> (current < desired /\ ~CreatePodRaises(SpecOf(r)))
                         /\ cl2.pc = "down_wait" => current > desired
                         /\ (current > desired /\ desired >= 0) => cl2.pc = "down_wait"
                         /\ cl2.pc # "replace_wait"
                         /\ InFlight(r, c)' => (cl2.desired = desired /\ Len(cl2.current_pods) = current)
             /\ cl.pc = "up_wait" => cl2.pc \in {"up_wait", "replace_wait", "idle", "done"}
             /\ cl.pc = "down_wait" => cl2.pc \in {"down_wait", "replace_wait", "idle", "done"}
             /\ cl.pc = "replace_wait" => cl2.pc \in {"replace_wait", "idle", "done"}
             /\ (cl.pc # "replace_wait" /\ cl2.pc = "replace_wait")
                   => /\ cl.pc \in {"up_wait", "down_wait"}
                      /\ \A i \in 1..Len(cl.task) : cl.task[i] = "done"
             /\ (r \in 1..Len(rs) /\ Returns(r, c)
                    /\ rs'[r].observed_generation # rs[r].observed_generation)
                   => /\ ~InFlight(r, c)'
                      /\ \A i \in 1..Len(cl.task) : cl.task[i] = "done"]_vars

C21_Witness ==
    \E r \in 1..Len(rs) :
        /\ call[r]["api"].pc = "replace_wait"
        /\ Len(call[r]["api"].current_pods) > call[r]["api"].desired
        /\ call[r]["api"].desired >= 1
        /\ rs[r].metrics.pods_deleted >= 1
        /\ \E p \in 1..Len(pod) : pod[p].phase = "SUCCEEDED"

\* C22: the first step of start() on an instance that is not Pending ends
\* the call at once (no suspension) and leaves the instance's phase,
\* container statuses and events, and every other instance, as they were.
C22_StartNoOp ==
    [][\A r \in RSIds, c \in Callers, i \in 1..MaxPods :
          (StartBegin(r, c, i) /\ pod[call[r][c].batch[i]].phase # "PENDING")
          => /\ call'[r][c].task[i] = "done"
             /\ pod'[call[r][c].batch[i]].phase = pod[call[r][c].batch[i]].phase
             /\ pod'[call[r][c].batch[i]].statuses = pod[call[r][c].batch[i]].statuses
             /\ pod'[call[r][c].batch[i]].events = pod[call[r][c].batch[i]].events
             /\ pod' = pod]_vars

C22_Witness ==
    \E r \in 1..Len(rs) : \E i \in 1..Len(call[r]["api"].task) :
        /\ call[r]["api"].pc = "up_wait"
        /\ call[r]["api"].task[i] = "done"
        /\ pod[call[r]["api"].batch[i]].phase = "FAILED"
        /\ pod[call[r]["api"].batch[i]].events = <<"POD_CREATED", "POD_TERMINATED">>
        /\ pod[call[r]["api"].batch[i]].statuses = "Empty"

\* C23 (OverlapSpec): the first step of terminate() on a Succeeded, Failed or
\* Terminating instance ends the call and changes nothing; on a Pending or
\* Running instance it sets the phase to Terminating in that same step and
\* suspends; the step that completes terminate() leaves the instance
\* Succeeded, whatever a start() of the same instance or the ChaosMonkey did
\* in between.
C23_Terminate ==
    [][\A r \in RSIds, c \in Callers, i \in 1..MaxPods :
          /\ TermBegin(r, c, i)
                => LET p == call[r][c].batch[i]
                   IN IF pod[p].phase \in {"SUCCEEDED", "FAILED", "TERMINATING"}
                      THEN /\ pod' = pod
                           /\ call'[r][c].task[i] = "done"
                      ELSE /\ pod[p].phase \in {"PENDING", "RUNNING"}
                           /\ pod'[p].phase = "TERMINATING"
                           /\ call'[r][c].task[i] = "sleeping"
                           /\ \A q \in 1..Len(pod) : q # p => pod'[q] = pod[q]
          /\ TermFinish(r, c, i)
                => /\ pod'[call[r][c].batch[i]].phase = "SUCCEEDED"
                   /\ call'[r][c].task[i] = "done"]_vars

C23_Witness ==
    \E r \in 1..Len(rs) : \E p \in 1..Len(pod) :
        /\ pod[p].phase = "SUCCEEDED"
        /\ pod[p].events = <<"POD_CREATED", "POD_TERMINATED", "POD_STARTED",
                              "POD_TERMINATED">>
        /\ \E c \in Callers : \E i \in 1..Len(call[r][c].task) :
              /\ call[r][c].pc = "down_wait"
              /\ call[r][c].batch[i] = p
              /\ call[r][c].task[i] = "done"

\* Label pairs and the selectors (string to string mappings) built from them
LabelPairs ==
    {<<"app", "web">>, <<"app", "api">>, <<"tier", "fe">>, <<"tier", "be">>,
     <<"env", "prod">>}

HasKey(labels, key) == \E l \in labels : l[1] = key

TestSelectors ==
    {sel \in SUBSET LabelPairs : \A x, y \in sel : x[1] = y[1] => x = y}

\* C24 (Spec): for the labels of every instance and every selector,
\* matches_labels is true exactly when each selector key is among the labels
\* with the selector's value; a selector key missing from the labels makes it
\* false; adding a label under a key that neither the labels nor the selector
\* hold leaves the result as it was.
C24_MatchesLabels ==
    \A p \in 1..Len(pod) : \A sel \in TestSelectors :
        LET labels == pod[p].labels
        IN /\ matches_labels(labels, sel)
                <=> \A kv \in sel :
                       /\ HasKey(labels, kv[1])
                       /\ \A l \in labels : l[1] = kv[1] => l[2] = kv[2]
           /\ (\E kv \in sel : ~HasKey(labels, kv[1]))
                => ~matches_labels(labels, sel)
           /\ \A x \in LabelPairs :
                (~HasKey(labels, x[1]) /\ ~HasKey(sel, x[1]))
                   => (matches_labels(labels \cup {x}, sel)
                          <=> matches_labels(labels, sel))

C24_Witness ==
    \E p \in 1..Len(pod) :
        /\ pod[p].labels = {<<"app", "api">>, <<"tier", "fe">>}
        /\ matches_labels(pod[p].labels, SelApi)
        /\ ~matches_labels(pod[p].labels, SelWeb)
        /\ ~matches_labels(pod[p].labels, {<<"app", "api">>, <<"env", "prod">>})
        /\ matches_labels(pod[p].labels \cup {<<"env", "prod">>}, SelApi)

\* C25 (Spec): is_ready() is true exactly for a RUNNING instance; no instance
\* in PENDING, FAILED, TERMINATING or SUCCEEDED is ready, an instance whose
\* container slots still report ready after the ChaosMonkey failed it or
\* terminate() began on it included.
C25_Readiness ==
    \A p \in 1..Len(pod) :
        /\ is_ready(p)
              <=> (pod[p].phase = "RUNNING" /\ pod[p].statuses # "Terminated")
        /\ pod[p].phase = "RUNNING" => pod[p].statuses = "Running"
        /\ pod[p].phase \in {"PENDING", "FAILED", "TERMINATING", "SUCCEEDED"}
              => ~is_ready(p)

C25_Witness ==
    /\ \E p \in 1..Len(pod) :
          /\ pod[p].phase = "FAILED"
          /\ pod[p].statuses = "Running"
          /\ ~is_ready(p)
    /\ \E q \in 1..Len(pod) :
          /\ pod[q].phase = "TERMINATING"
          /\ pod[q].statuses = "Running"
          /\ ~is_ready(q)

\* The mutexes of the code. self._lock is created by ReplicaSet.__init__, one
\* for each group; the lock of a @synchronized(threading.RLock()) method is
\* created once, when the class body is executed, and is the same object for
\* every group.
self_lock(r) == <<"ReplicaSet._lock", r>>
synchronized_lock(method) == <<"synchronized", method>>

\* The mutexes held at each access to a group's owned set and counters
held_update_spec(r) == {self_lock(r)}
held_get_owned_pods(r) == {synchronized_lock("get_owned_pods")}
held_get_matching_pods(r) == {synchronized_lock("get_matching_pods")}
held_scale_up_insert(r) == {}
held_scale_down_pop(r) == {self_lock(r)}
held_replace_failed_pop(r) == {self_lock(r)}
held_observed_generation(r) == {}

\* C26 (Spec): every step that reads a group's owned set for the scaling
\* decision, adds a pod to it, removes pods from it, or writes its generation
\* or observed generation does so holding the group's own mutex self._lock.
C26_OneMutex ==
    [][\A r \in 1..Len(rs) :
          /\ (\E c \in Callers : ReconcileBegin(r, c) /\ HasSpec(r))
                => self_lock(r) \in held_get_matching_pods(r)
          /\ (Range(rs'[r].pods) \ Range(rs[r].pods) # {})
                => self_lock(r) \in held_scale_up_insert(r)
          /\ (\E c \in Callers : DownResume(r, c))
                => self_lock(r) \in held_scale_down_pop(r)
          /\ (\E c \in Callers : ReconcileBegin(r, c) \/ ReplaceResume(r, c))
                /\ Range(rs[r].pods) \ Range(rs'[r].pods) # {}
                => self_lock(r) \in held_replace_failed_pop(r)
          /\ rs'[r].generation # rs[r].generation
                => self_lock(r) \in held_update_spec(r)
          /\ rs'[r].observed_generation # rs[r].observed_generation
                => self_lock(r) \in held_observed_generation(r)]_vars

\* A step of reconcile() of group r (any caller), or update_spec on group r
GroupStep(r) ==
    \/ \E c \in Callers : ReconcileBegin(r, c)
    \/ \E c \in Callers, i \in 1..MaxPods : StartBegin(r, c, i)
    \/ \E c \in Callers, i \in 1..MaxPods, ok \in BOOLEAN : StartFinish(r, c, i, ok)
    \/ \E c \in Callers, i \in 1..MaxPods : TermBegin(r, c, i)
    \/ \E c \in Callers, i \in 1..MaxPods : TermFinish(r, c, i)
    \/ \E c \in Callers : UpResume(r, c) \/ DownResume(r, c) \/ ReplaceResume(r, c)
    \/ \E sp \in GroupInputs : UpdateSpec(r, sp)

\* C27 (GroupSpec): a step of reconcile() or update_spec of one group leaves
\* the record of every other group (owned set, spec, generation, observed
\* generation, metrics) and every pod the other group owns unchanged: a step
\* in which the record or an owned pod of group o changes is no step of
\* another group.
C27_Isolation ==
    [][\A o \in 1..Len(rs) :
          (\/ rs'[o] # rs[o]
           \/ \E p \in Range(rs[o].pods) : pod'[p] # pod[p])
          => \A r \in RSIds : r # o => ~GroupStep(r)]_vars

C27_Witness ==
    /\ Len(rs) = 2
    /\ InFlight(1, "ctl") /\ InFlight(2, "ctl")
    /\ rs[1].generation = 2
    /\ rs[1].metrics.pods_deleted > 0
    /\ rs[2].generation = 1
    /\ rs[2].metrics.pods_deleted = 0
    /\ Len(rs[2].pods) = MaxReplicas
    /\ \A p \in Range(rs[2].pods) : pod[p].phase = "RUNNING"
    /\ \E p \in Range(rs[1].pods) : pod[p].phase = "TERMINATING"

\* A call of the host that is not reconcile(): create_replica_set,
\* update_spec, stop(), enable(), disable(), or a step of the ChaosMonkey task
HostOp ==
    \/ \E sp \in OverlapInputs :
          create_replica_set("web", sp.replicas, sp.selector, sp.template)
    \/ \E r \in RSIds, sp \in OverlapInputs : UpdateSpec(r, sp)
    \/ Stop
    \/ ChaosEnable
    \/ ChaosDisable
    \/ \E r \in RSIds : ChaosCreate(r)
    \/ ChaosEnter
    \/ ChaosSpare
    \/ \E i \in 1..MaxPods : ChaosKill(i)

\* C28 (HostSpec): a step in which the owned set of an existing group gains or
\* loses a pod, or in which a group appears with a pod already owned, is not a
\* step of create_replica_set, update_spec, stop() or the ChaosMonkey; the
\* getters and get_status / get_cluster_status are read-only operators.
C28_OnlyReconcile ==
    [][(\/ \E r \in 1..Len(rs) : Range(rs'[r].pods) # Range(rs[r].pods)
        \/ \E r \in 1..Len(rs') : r > Len(rs) /\ rs'[r].pods # <<>>)
       => ~HostOp]_vars

C28_Witness ==
    /\ stopped
    /\ raised = "ValueError"
    /\ chaos.kills > 0
    /\ Len(rs) = 1
    /\ rs[1].generation = 2
    /\ Len(rs[1].pods) = MaxReplicas
    /\ \E p \in Range(rs[1].pods) : pod[p].phase = "FAILED"

\* C29 (as claimed, HostSpec): the pod the ChaosMonkey fails is, in the step
\* that fails it, a pod of the target group's owned set whose phase is
\* RUNNING, and that step changes no other pod.
C29_RunningVictims ==
    [][\A i \in 1..MaxPods : ChaosKill(i) =>
          LET victim == get_matching_pods(chaos.target)[i]
          IN /\ victim \in Range(rs[chaos.target].pods)
             /\ pod[victim].phase = "RUNNING"
             /\ \A p \in 1..Len(pod) : p # victim => pod'[p] = pod[p]]_vars

\* C30 (as claimed, HostSpec): the ChaosMonkey fails a pod only in a state in
\* which it is enabled.
C30_OnlyWhileEnabled ==
    [][(\E i \in 1..MaxPods : ChaosKill(i)) => chaos.enabled]_vars

\* C31 (CtlSpec): a tick begins only from the sleep (or the start) of run()
\* with no reconcile() of the controller in flight, and schedules one
\* reconcile() for each group registered at that moment and for no other; a
\* controller reconcile() begins only from a call the tick scheduled and
\* begins once; the gather of the tick completes only when every scheduled
\* call has returned.
C31_TickStructure ==
    [][/\ BeginsTick =>
            /\ runpc \in {"created", "sleeping"}
            /\ \A r \in RSIds : ~InFlight(r, "ctl")
            /\ \A r \in RSIds :
                  call'[r]["ctl"].pc = "scheduled" <=> r \in Registered
       /\ \A r \in RSIds :
            /\ (call'[r]["ctl"].pc = "scheduled" /\ call[r]["ctl"].pc # "scheduled")
                  => BeginsTick
            /\ ReconcileBegin(r, "ctl")
                  => (call[r]["ctl"].pc = "scheduled" /\ call'[r]["ctl"].pc # "scheduled")
            /\ (/\ r \in 1..Len(rs)
                /\ rs'[r].metrics.reconcile_count # rs[r].metrics.reconcile_count)
                  => ReconcileBegin(r, "ctl")
       /\ (runpc = "gather" /\ runpc' = "sleeping")
            => \A r \in RSIds : ~InFlight(r, "ctl")]_vars

C31_Witness ==
    /\ Len(rs) = 2
    /\ runpc = "gather"
    /\ rs[1].metrics.reconcile_count = 2
    /\ rs[2].metrics.reconcile_count = 1
    /\ call[1]["ctl"].pc = "done"
    /\ call[2]["ctl"].pc = "up_wait"

\* C32 (GroupSpec): in every state and for every group, each pod that
\* get_matching_pods returns is also returned by get_owned_pods and is PENDING
\* or RUNNING, and get_owned_pods returns every pod of the group's _pods.
C32_MatchingOwned ==
    \A r \in 1..Len(rs) :
        /\ Range(get_matching_pods(r)) \subseteq Range(get_owned_pods(r))
        /\ \A p \in Range(get_matching_pods(r)) :
              /\ pod[p].owner = r
              /\ pod[p].phase \in {"PENDING", "RUNNING"}
        /\ get_owned_pods(r) = rs[r].pods

C32_Witness ==
    /\ Len(rs) = 2
    /\ Len(get_matching_pods(1)) = 1
    /\ Len(get_owned_pods(1)) = 2
    /\ \E p \in Range(get_owned_pods(1)) : pod[p].phase = "TERMINATING"
    /\ Len(get_matching_pods(2)) = 2
    /\ \E p \in Range(get_matching_pods(2)) : pod[p].phase = "PENDING"

\* reconcile() call c on r returns in this step without raising
ReturnsNormally(r, c) ==
    /\ Returns(r, c)
    /\ IF c = "api" THEN raised' = None ELSE call'[r][c].exc = None

\* C33 (as claimed, HostSpec): when a reconcile() that was suspended returns
\* normally and leaves the observed generation equal to the generation, the
\* generation is the one whose spec the call read for its scaling decision.
C33_CaughtUp ==
    [][\A r \in 1..Len(rs), c \in Callers :
          (/\ Resumes(r, c)
           /\ ReturnsNormally(r, c)
           /\ rs'[r].observed_generation = rs'[r].generation)
          => call[r][c].pre.gen = rs'[r].generation]_vars

\* spec.replicas as read by the reconcile() call c on r that takes this step
DesiredRead(r, c) ==
    IF call[r][c].pc \in {"up_wait", "down_wait", "replace_wait"}
    THEN call[r][c].desired
    ELSE SpecOf(r).replicas

\* C34 (as claimed, HostSpec): in the state a reconcile() call returns to,
\* the group has at most as many matching non-terminal pods as the
\* spec.replicas that call read.
C34_NoOverProvisioning ==
    [][\A r \in 1..Len(rs), c \in Callers :
          (HasSpec(r) /\ ReturnsNormally(r, c))
          => Len(get_matching_pods(r))' <= DesiredRead(r, c)]_vars

\* C35 (as claimed, OverlapSpec): every pod that is in no group's owned set
\* any more is SUCCEEDED or FAILED, so a pod is removed only in one of these
\* phases and keeps it afterwards.
C35_NoLiveDropped ==
    \A p \in 1..Len(pod) :
        (\A r \in 1..Len(rs) : p \notin Range(rs[r].pods))
            => pod[p].phase \in {"SUCCEEDED", "FAILED"}

\* A start() of pod p scheduled or sleeping in a reconcile() call on r
StartInProgress(r, p) ==
    \E c \in Callers :
        /\ call[r][c].pc \in {"up_wait", "replace_wait"}
        /\ \E i \in 1..Len(call[r][c].batch) :
              /\ call[r][c].batch[i] = p
              /\ call[r][c].task[i] \in {"scheduled", "sleeping"}

\* reconcile() call c on r raises in this step: an exception of _create_pod,
\* or the CancelledError that reaches a suspended call of the controller
\* when its run() task is cancelled
Raises(r, c) ==
    \/ Returns(r, c) /\ ~ReturnsNormally(r, c)
    \/ /\ c = "ctl"
       /\ CancelRun
       /\ call[r][c].pc \in {"up_wait", "down_wait", "replace_wait"}

\* C37 (as claimed, CtlSpec): a step in which a reconcile() call raises
\* leaves the observed generation as it was before the call, leaves no owned
\* pod PENDING without a start() in progress, and leaves get_status and
\* get_cluster_status returning their counts of the pods then owned.
C37_FailedReconcile ==
    [][\A r \in 1..Len(rs), c \in Callers : Raises(r, c) =>
          /\ rs'[r].observed_generation = rs[r].observed_generation
          /\ \A p \in Range(rs'[r].pods) :
                pod'[p].phase = "PENDING" => StartInProgress(r, p)'
          /\ get_status(r)'.replicas = Len(get_matching_pods(r))'
          /\ get_cluster_status'.totalPods = SumOfStatus("replicas")']_vars

\* The pods ever added to the owned set of r, and those no longer in it
EverOwned(r) == {p \in 1..Len(pod) : pod[p].owner = r}
NoLongerOwned(r) == EverOwned(r) \ Range(rs[r].pods)

\* no reconcile() call on r is suspended
Quiescent(r) ==
    \A c \in Callers : call[r][c].pc \notin {"up_wait", "down_wait", "replace_wait"}

\* C36 (as claimed, OverlapSpec): pods_created is the number of pods ever
\* added to the owned set; once the reconcile() calls on the group have
\* returned, pods_deleted counts distinct pods that scale-down removed, so it
\* is at most the number of pods no longer owned; no counter ever decreases.
C36_Metrics ==
    [][\A r \in 1..Len(rs) :
          /\ rs'[r].metrics.pods_created = Cardinality(EverOwned(r))'
          /\ Quiescent(r)' =>
                rs'[r].metrics.pods_deleted <= Cardinality(NoLongerOwned(r))'
          /\ rs'[r].metrics.pods_created >= rs[r].metrics.pods_created
          /\ rs'[r].metrics.pods_deleted >= rs[r].metrics.pods_deleted
          /\ rs'[r].metrics.reconcile_count >= rs[r].metrics.reconcile_count]_vars

\* The spec of r changes no more and the ChaosMonkey fails no more pods
Calm(r) ==
    /\ r \in Registered
    /\ \/ rs[r].metrics.reconcile_count = MaxReconciles
       \/ /\ rs[r].generation = MaxGeneration
          /\ chaos.pc = "exited" \/ chaos.kills = MaxChaosKills

\* exactly spec.replicas matching pods, all Running
Converged(r) ==
    /\ Len(get_matching_pods(r)) = SpecOf(r).replicas
    /\ \A p \in Range(get_matching_pods(r)) : pod[p].phase = "RUNNING"

====
